---- MODULE Spec2Model ----
(***************************************************************************)
(* A model of nova-verifier: the lowering pass of src/src/lower.rs (an     *)
(* upper, name-addressed ConfigFile is converted into the index-addressed  *)
(* ConfigFile of nova_software_common), the command conversion of          *)
(* src/src/upper.rs, and the three-phase pipeline of src/src/lib.rs.       *)
(*                                                                         *)
(* Conventions.                                                            *)
(*  - Option<T>: None is <<>>, Some(v) is <<v>>.                           *)
(*  - Result<T, ()> of a function that may also panic: a record            *)
(*    [res, val, diags] with res in {"Ok", "Err", "Panic"}; diags is the   *)
(*    context's diagnostic list when the function returns or panics.       *)
(*  - A Span is modelled by the name of the field it was taken from        *)
(*    (Span::from_spanned); the only place the code reads a span's         *)
(*    position is the transition/abort ordering, modelled by the field     *)
(*    abort_first of a check.                                              *)
(*  - A format!-ed message is the tuple of its text and its argument.      *)
(***************************************************************************)
EXTENDS Integers, Sequences, FiniteSets, TLC

(***************************************************************************)
(* Bounds of the model.  MAX_STATES, MAX_CHECKS and MAX_COMMANDS are the   *)
(* capacities of nova_software_common, whose values are not part of this   *)
(* repository: the model gives them small values.                          *)
(***************************************************************************)
MAX_STATES == 2

MAX_CHECKS == 1

MAX_COMMANDS == 1

\* The number of checks and commands one document declares, over all states.
MaxItems == 2

\* The number of diagnostics a session takes in one phase, and the number of
\* phases it ends, when the session engine runs on its own.
MaxEmits == 2

MaxPhases == 2

\* The number of labelled spans a builder is given.
MaxLabels == 1

None == <<>>

Some(v) == <<v>>

IsSome(o) == o # <<>>

IsNone(o) == o = <<>>

Unwrap(o) == o[1]

(***************************************************************************)
(* Diagnostics: codemap_diagnostic::Diagnostic as the builder of           *)
(* lower.rs fills it.                                                      *)
(***************************************************************************)
NewDiagnostic(level, message) ==
    [level |-> level, message |-> message, primary |-> None, spans |-> <<>>]

SetPrimarySpan(d, span, msg) == [d EXCEPT !.primary = Some(<<span, Some(msg)>>)]

SetPrimarySpanNoMsg(d, span) == [d EXCEPT !.primary = Some(<<span, None>>)]

SpanLabel(d, span, label) == [d EXCEPT !.spans = Append(@, <<span, Some(label)>>)]

AddSpan(d, span) == [d EXCEPT !.spans = Append(@, <<span, None>>)]

\* `for span in values { err = err.span_label(span, "declared here") }`
RECURSIVE SpanLabels(_, _, _)
SpanLabels(d, spans, label) ==
    IF spans = <<>> THEN d
    ELSE SpanLabels(SpanLabel(d, Head(spans), label), Tail(spans), label)

\* Handler::warn and Handler::error: the diagnostic goes to the end of the
\* list of the current phase.
HandlerWarn(diags, d) == Append(diags, d)

HandlerError(diags, d) == Append(diags, d)

\* emit without its call of handler.warn: a Warning is never queued.
EmitErrorsOnly(diags, d) ==
    IF d.level = "Warning" THEN diags ELSE HandlerError(diags, d)

\* emit: the diagnostic is queued at the end of the current phase's list,
\* through handler.warn when its level is Warning, handler.error otherwise.
Emit(diags, d) ==
    IF d.level = "Warning" THEN HandlerWarn(diags, d) ELSE HandlerError(diags, d)

\* cancel, and cancelled
Cancel(d) == [d EXCEPT !.level = "Cancelled"]

Cancelled(d) == d.level = "Cancelled"

\* The levels a builder is created with.
Levels == {"Error", "Warning", "Note", "Help"}

HasError(diags) == \E i \in DOMAIN diags : diags[i].level = "Error"

NumErrors(diags) == Cardinality({i \in DOMAIN diags : diags[i].level = "Error"})

\* The messages of the diagnostics of a list.
Messages(diags) == {diags[i].message : i \in DOMAIN diags}

(***************************************************************************)
(* The name table of the lowering pass.                                    *)
(***************************************************************************)
\* Temp::new: a HashMap collected from (name, index) pairs in declaration
\* order, indices from enumerate (0-based); a later pair with the same name
\* replaces the earlier one.
\* Temp::new counting the states from 1.
TempNewOneBased(states) ==
    [nm \in {states[i].name : i \in DOMAIN states} |->
        CHOOSE i \in DOMAIN states :
            /\ states[i].name = nm
            /\ \A j \in DOMAIN states : states[j].name = nm => j <= i]

\* Temp::new keeping the first state declared with a name.
TempNewFirst(states) ==
    [nm \in {states[i].name : i \in DOMAIN states} |->
        (CHOOSE i \in DOMAIN states :
            /\ states[i].name = nm
            /\ \A j \in DOMAIN states : states[j].name = nm => j >= i) - 1]

TempNew(states) ==
    [nm \in {states[i].name : i \in DOMAIN states} |->
        (CHOOSE i \in DOMAIN states :
            /\ states[i].name = nm
            /\ \A j \in DOMAIN states : states[j].name = nm => j <= i) - 1]

Result(res, val, diags) == [res |-> res, val |-> val, diags |-> diags]

NoValue == <<>>

\* Temp::get_index: the index of `name`, or the "state not found" error.
\* `span` is the span of the name that is looked up.
GetIndex(temp, name, span, diags) ==
    IF name \in DOMAIN temp
    THEN Result("Ok", temp[name], diags)
    ELSE Result("Err", NoValue,
            Emit(diags, SetPrimarySpan(
                NewDiagnostic("Error", <<"state not found '{}'", name>>),
                span, <<"not found">>)))

(***************************************************************************)
(* convert_check.                                                          *)
(***************************************************************************)
CheckKinds ==
    [apogee |-> "Apogee", altitude |-> "Altitude",
     pyro1_continuity |-> "Pyro1Continuity",
     pyro2_continuity |-> "Pyro2Continuity",
     pyro3_continuity |-> "Pyro3Continuity"]

\* The number of condition groups of a check that are present.
CheckCount(check) ==
    (IF IsSome(check.greater_than) THEN 1 ELSE 0)
    + (IF IsSome(check.upper_bound) /\ IsSome(check.lower_bound) THEN 1 ELSE 0)
    + (IF IsSome(check.flag) THEN 1 ELSE 0)

\* The spans the "more than one condition" error labels.  The second group
\* is matched on (greater_than, lower_bound), and both of its pushes read
\* what the pattern bound: the span of greater_than, then of lower_bound.
TooManySpans(check) ==
    (IF IsSome(check.greater_than) THEN <<"greater_than">> ELSE <<>>)
    \o (IF IsSome(check.greater_than) /\ IsSome(check.lower_bound)
        THEN <<"greater_than", "lower_bound">> ELSE <<>>)
    \o (IF IsSome(check.flag) THEN <<"flag">> ELSE <<>>)

\* The condition with the two values of a flag exchanged.
ConditionOfInverted(check, diags) ==
    IF IsSome(check.greater_than)
    THEN Result("Ok", <<"GreaterThan", Unwrap(check.greater_than)>>, diags)
    ELSE IF IsSome(check.upper_bound) /\ IsSome(check.lower_bound)
    THEN Result("Ok", <<"Between", Unwrap(check.upper_bound),
                        Unwrap(check.lower_bound)>>, diags)
    ELSE IF IsSome(check.flag) /\ Unwrap(check.flag) \in {"set", "unset"}
    THEN Result("Ok", <<"FlagEq", Unwrap(check.flag) = "unset">>, diags)
    ELSE Result("Panic", NoValue, diags)

\* `let condition = { ... }`: the condition of a check with a known kind.
ConditionOf(check, diags) ==
    IF IsSome(check.greater_than)
    THEN Result("Ok", <<"GreaterThan", Unwrap(check.greater_than)>>, diags)
    ELSE IF IsSome(check.upper_bound) /\ IsSome(check.lower_bound)
    THEN Result("Ok", <<"Between", Unwrap(check.upper_bound),
                        Unwrap(check.lower_bound)>>, diags)
    ELSE IF IsSome(check.flag)
    THEN IF Unwrap(check.flag) = "set" THEN Result("Ok", <<"FlagEq", TRUE>>, diags)
         ELSE IF Unwrap(check.flag) = "unset"
         THEN Result("Ok", <<"FlagEq", FALSE>>, diags)
         ELSE Result("Err", NoValue,
                Emit(diags, SetPrimarySpan(
                    NewDiagnostic("Error", <<"flag values must be 'set' or 'unset'">>),
                    "flag", <<"unknown flag value '{}'", check.check>>)))
    ELSE Result("Panic", NoValue, diags)       \* unreachable!()

\* mismatch_err(context, &check.check, "")
MismatchErr(diags) ==
    Result("Err", NoValue,
        Emit(diags, SetPrimarySpan(
            NewDiagnostic("Error", <<"mismatched check type">>), "check", <<"">>)))

\* `let data = match check_kind { ... }`: type checking of kind and condition.
DataOf(kind, cond, diags) ==
    IF kind = "Apogee"
    THEN IF cond[1] = "FlagEq" THEN Result("Ok", <<"ApogeeFlag", cond[2]>>, diags)
         ELSE MismatchErr(diags)
    ELSE IF kind = "Altitude"
    THEN IF cond[1] = "Between"
         THEN Result("Ok", <<"Altitude", "Between", cond[2], cond[3]>>, diags)
         ELSE IF cond[1] = "GreaterThan"
         THEN Result("Ok", <<"Altitude", "GreaterThan", cond[2]>>, diags)
         ELSE IF cond[1] = "LessThan"
         THEN Result("Ok", <<"Altitude", "LessThan", cond[2]>>, diags)
         ELSE Result("Panic", NoValue, diags)  \* panic!()
    ELSE IF cond[1] = "FlagEq" THEN Result("Ok", <<kind, cond[2]>>, diags)
         ELSE Result("Panic", NoValue, diags)  \* panic!()

\* The transition of a check: the lookups of `transition` and `abort`, then
\* the match on the pair.
TransitionOf(check, temp, diags) ==
    LET t == IF IsSome(check.transition)
             THEN GetIndex(temp, Unwrap(check.transition), "transition", diags)
             ELSE Result("Ok", NoValue, diags)
    IN  IF t.res = "Err" THEN t
        ELSE
        LET a == IF IsSome(check.abort)
                 THEN GetIndex(temp, Unwrap(check.abort), "abort", t.diags)
                 ELSE Result("Ok", NoValue, t.diags)
        IN  IF a.res = "Err" THEN a
            ELSE IF IsSome(check.transition) /\ IsNone(check.abort)
            THEN Result("Ok", Some(<<"Transition", t.val>>), a.diags)
            ELSE IF IsNone(check.transition) /\ IsSome(check.abort)
            THEN Result("Ok", Some(<<"Abort", a.val>>), a.diags)
            ELSE IF IsNone(check.transition) /\ IsNone(check.abort)
            THEN Result("Ok", None, a.diags)
            ELSE
            \* swap so that the span that starts first comes first
            LET s1 == IF check.abort_first THEN "abort" ELSE "transition"
                s2 == IF check.abort_first THEN "transition" ELSE "abort"
                e  == SpanLabel(SetPrimarySpanNoMsg(
                        NewDiagnostic("Error",
                          <<"abort and transition cannot be active in the same check">>),
                        s1), s2, <<"second action declared here">>)
                h  == AddSpan(AddSpan(
                        NewDiagnostic("Help",
                          <<"remove either 'abort' or 'transition'">>), s1), s2)
            IN  Result("Err", NoValue, Emit(Emit(a.diags, e), h))

\* convert_check from the kind match on (the count of conditions is 0 or 1).
ConvertKnownCount(check, temp, diags) ==
    IF check.check \notin DOMAIN CheckKinds
    THEN Result("Err", NoValue,
            Emit(Emit(diags,
                SetPrimarySpan(
                    NewDiagnostic("Error", <<"no check with name '{}' exists", check.check>>),
                    "full_span", <<"unknown check '{}'", check.check>>)),
                SetPrimarySpanNoMsg(
                    NewDiagnostic("Help",
                        <<"try 'apogee', or 'altitude', or 'pyroX_continuity'">>),
                    "full_span")))
    ELSE
    LET c == ConditionOf(check, diags)
    IN  IF c.res # "Ok" THEN c
        ELSE
        LET d == DataOf(CheckKinds[check.check], c.val, c.diags)
        IN  IF d.res # "Ok" THEN d
            ELSE
            LET t == TransitionOf(check, temp, d.diags)
            IN  IF t.res # "Ok" THEN t
                ELSE Result("Ok", [data |-> d.val, transition |-> t.val], t.diags)

convert_check(check, temp, diags) ==
    IF \/ IsSome(check.upper_bound) /\ IsNone(check.lower_bound)
       \/ IsNone(check.upper_bound) /\ IsSome(check.lower_bound)
    THEN Result("Panic", NoValue, diags)       \* panic!("Unmatched bound! ...")
    ELSE
    LET count == CheckCount(check)
        d0 == IF count = 0
              THEN Emit(diags, SetPrimarySpan(
                      NewDiagnostic("Error", <<"too many check conditions">>),
                      "full_span",
                      <<"you must specify one check condition per check">>))
              ELSE diags
    IN  IF count > 1
        THEN Result("Err", NoValue,
                Emit(d0, SpanLabels(
                    SetPrimarySpan(
                        NewDiagnostic("Error", <<"too many command actions">>),
                        "full_span",
                        <<"you must specify exactly one check condition, not {}",
                          Len(TooManySpans(check))>>),
                    TooManySpans(check), <<"declared here">>)))
        ELSE ConvertKnownCount(check, temp, d0)

(***************************************************************************)
(* Commands.                                                               *)
(***************************************************************************)
\* TomlBool(bool) and `impl From<TomlBool> for bool`.
TomlBool(b) == <<"TomlBool", b>>

BoolFrom(t) == t[2]

Seconds(d) == <<"Seconds", d>>

PayloadFields == <<"pyro1", "pyro2", "pyro3", "data_rate", "beacon">>

\* `count`: the number of payload fields that are set.
CommandCount(command) ==
    Cardinality({i \in DOMAIN PayloadFields : IsSome(command[PayloadFields[i]])})

\* `values`: the spans of the payload fields that are set, in field order.
RECURSIVE SetFieldSpans(_, _)
SetFieldSpans(command, fields) ==
    IF fields = <<>> THEN <<>>
    ELSE (IF IsSome(command[Head(fields)]) THEN <<Head(fields)>> ELSE <<>>)
         \o SetFieldSpans(command, Tail(fields))

\* `let object = { ... }`: the payload of the first field that is set.
CommandObjectOf(command) ==
    IF IsSome(command.pyro1) THEN Some(<<"Pyro1", BoolFrom(Unwrap(command.pyro1))>>)
    ELSE IF IsSome(command.pyro2) THEN Some(<<"Pyro2", BoolFrom(Unwrap(command.pyro2))>>)
    ELSE IF IsSome(command.pyro3) THEN Some(<<"Pyro3", BoolFrom(Unwrap(command.pyro3))>>)
    ELSE IF IsSome(command.data_rate) THEN Some(<<"DataRate", Unwrap(command.data_rate)>>)
    ELSE IF IsSome(command.beacon) THEN Some(<<"Beacon", BoolFrom(Unwrap(command.beacon))>>)
    ELSE None                                   \* unreachable!()

\* The delay left at zero whatever the command declares.
DelayOfZero(command) == Seconds(0)

\* `delay: common::Seconds(command.delay ... .unwrap_or(0.0))`
DelayOf(command) ==
    Seconds(IF IsSome(command.delay) THEN Unwrap(command.delay) ELSE 0)

LoweredCommand(command) ==
    [object |-> Unwrap(CommandObjectOf(command)), delay |-> DelayOf(command)]

\* lower.rs, convert_command.
convert_command(command, diags) ==
    LET count == CommandCount(command)
        values == SetFieldSpans(command, PayloadFields)
    IN  IF count = 0
        THEN Result("Err", NoValue,
                Emit(diags, SetPrimarySpan(
                    NewDiagnostic("Error", <<"command action missing">>),
                    "full_span", <<"you must specify one command action">>)))
        ELSE
        LET d1 == IF count > 1
                  THEN Emit(diags, SpanLabels(
                          SetPrimarySpan(
                              NewDiagnostic("Error", <<"too many command actions">>),
                              "full_span",
                              <<"you must specify exactly one command action, not {}",
                                Len(values)>>),
                          values, <<"declared here">>))
                  ELSE diags
        IN  IF IsNone(CommandObjectOf(command))
            THEN Result("Panic", NoValue, d1)
            ELSE Result("Ok", LoweredCommand(command), d1)

\* upper.rs, `impl TryInto<index::Command> for &Command`: the error value is
\* returned, nothing is emitted.
CommandTryInto(command) ==
    LET count == CommandCount(command)
    IN  IF count = 0
        THEN [res |-> "Err", val |-> <<"CommandError::NoValues">>]
        ELSE IF count > 1
        THEN [res |-> "Err", val |-> <<"CommandError::TooManyValues", count>>]
        ELSE IF IsNone(CommandObjectOf(command))
        THEN [res |-> "Panic", val |-> NoValue]
        ELSE [res |-> "Ok", val |-> LoweredCommand(command)]

(***************************************************************************)
(* lower::verify, up to its loop.                                          *)
(***************************************************************************)
\* The gates with the emission of their diagnostics forgotten.
StateCountGateSilent(mid, diags) ==
    IF Len(mid.states) = 0 \/ Len(mid.states) > MAX_STATES
    THEN Result("Err", NoValue, diags)
    ELSE Result("Ok", NoValue, diags)

\* The two state-count gates: Ok when the pass goes on.
StateCountGate(mid, diags) ==
    IF Len(mid.states) = 0
    THEN Result("Err", NoValue,
            Emit(diags, SetPrimarySpan(
                NewDiagnostic("Error", <<"states missing">>),
                "states", <<"you need to have at least one state">>)))
    ELSE IF Len(mid.states) > MAX_STATES
    THEN Result("Err", NoValue,
            Emit(diags, SetPrimarySpan(
                NewDiagnostic("Error", <<"too many states">>),
                "states", <<"the maxinum number of states is {}", MAX_STATES>>)))
    ELSE Result("Ok", NoValue, diags)

\* State::new(Vec::new(), Vec::new(), None)
NewState == [checks |-> <<>>, commands |-> <<>>, timeout |-> None]

\* The filler states carrying the timeouts the document declares.
FillerStatesWithTimeout(mid) ==
    [i \in 1..Len(mid.states) |->
        [checks |-> <<>>, commands |-> <<>>, timeout |-> mid.states[i].timeout]]

\* `mid.states.iter().map(|_| State::new(...)).collect()`
FillerStates(mid) == [i \in 1..Len(mid.states) |-> NewState]

\* The default state with the named default ignored: always index 0.
DefaultStateFirst(mid, temp, diags) == Result("Ok", 0, diags)

\* `mid.default_state.map_or_else(|| Ok(0), |name| temp.get_index(&name, context))`
DefaultState(mid, temp, diags) ==
    IF IsNone(mid.default_state)
    THEN Result("Ok", 0, diags)
    ELSE GetIndex(temp, Unwrap(mid.default_state), "default_state", diags)

(***************************************************************************)
(* The phases of the session and the pipeline of lib.rs.                   *)
(***************************************************************************)
\* Context::end_phase_and_emit: the phase's diagnostics, as a failure when
\* one of them is an Error.
EndPhase(diags) ==
    [res |-> IF HasError(diags) THEN "Err" ELSE "Ok", diags |-> diags]

\* The `?` left out: the failure of a phase is never returned.
PropagatesNever(phase_result) == FALSE

\* The `?` of verify_inner on the result of ending a phase: TRUE when
\* verify_inner returns the failure instead of going on.
Propagates(phase_result) == phase_result.res = "Err"

\* postcard::to_stdvec(&lower): the encoding of a lower ConfigFile.
Postcard(config) == <<"postcard", config>>

(***************************************************************************)
(* The inputs.                                                             *)
(***************************************************************************)
StateNames == {"A", "B"}

\* The names a document refers to: the state names and one that is never
\* declared.
RefNames == StateNames \cup {"Z"}

Option(S) == {None} \cup {Some(v) : v \in S}

KindNames == DOMAIN CheckKinds \cup {"speed"}

FlagValues == {"set", "unset", "on"}

\* Every check over the small value sets.  abort_first says that the span of
\* `abort` starts before the span of `transition`; it is read only when both
\* are set.
CheckInputs ==
    {c \in [check : KindNames,
            transition : Option(RefNames), abort : Option(RefNames),
            greater_than : Option({1, 2}), upper_bound : Option({2}),
            lower_bound : Option({1}), flag : Option(FlagValues),
            abort_first : BOOLEAN] :
        c.abort_first => IsSome(c.transition) /\ IsSome(c.abort)}

CommandInputs ==
    [pyro1 : Option({TomlBool(TRUE), TomlBool(FALSE)}),
     pyro2 : Option({TomlBool(TRUE), TomlBool(FALSE)}),
     pyro3 : Option({TomlBool(TRUE), TomlBool(FALSE)}),
     data_rate : Option({10}),
     beacon : Option({TomlBool(TRUE), TomlBool(FALSE)}),
     delay : Option({5})]

\* The checks and commands the documents of the pipeline are made of: a part
\* of the inputs above that holds valid items, items that fail and items on
\* which the conversion panics.
DocChecks ==
    {c \in CheckInputs :
        /\ c.check \in {"altitude", "speed"}
        /\ c.greater_than \in {None, Some(1)}
        /\ c.upper_bound = None /\ c.lower_bound = None
        /\ c.flag \in {None, Some("set")}
        /\ c.transition \in {None, Some("B"), Some("Z")}
        /\ c.abort \in {None, Some("B")}
        /\ ~c.abort_first}

DocCommands ==
    {m \in CommandInputs :
        /\ m.pyro1 \in {None, Some(TomlBool(TRUE))}
        /\ m.pyro2 = None /\ m.pyro3 = None /\ m.beacon = None
        /\ m.delay = None}

Timeouts == {None}

\* upper::State without its items, which the pass reads one at a time.
StateHeaders == [name : StateNames, timeout : Timeouts]

SeqsUpTo(S, n) == UNION {[1..k -> S] : k \in 0..n}

\* upper::ConfigFile without the items of its states.
MidFiles ==
    [default_state : Option(RefNames), states : SeqsUpTo(StateHeaders, MAX_STATES + 1)]

(***************************************************************************)
(* The state.                                                              *)
(***************************************************************************)
VARIABLES
    pc,               \* where the program is
    upper,            \* the result of upper::verify: [res, val], val the document
    diags,            \* the diagnostics of the context's current phase
    all_diagnostics,  \* verify_inner's all_diagnostics
    default_state,    \* lower::verify's default_state
    states,           \* lower::verify's states, the lower states being filled
    si,               \* the position of the loop over the states (1-based)
    items,            \* the number of checks and commands read so far
    cur_check,        \* the check given to the last convert_check, or None
    cur_command,      \* the command given to the last conversion, or None
    ret,              \* the result of the last conversion: [res, val]
    lower,            \* the result of lower::verify: [res, val]
    bytes,            \* the result of postcard::to_stdvec: [res, val]
    started,          \* the phases begun, in order
    ended,            \* the results of the phases ended, in order
    result,           \* what verify_inner returned: [res, bytes, diags]
    file_result,      \* what verify_file returned: [res, diags]
    written,          \* the bytes written to dst_path, or None
    builder,          \* the DiagnosticBuilder in hand, or None
    emitted,          \* the diagnostics handed to the session, in order
    phase_end,        \* what ending the phase returned, or None
    ctx,              \* the Context: "none", "live", "forgotten", "dropped"
    errors            \* the Context's errors.inner

vars == <<pc, upper, diags, all_diagnostics, default_state, states, si, items,
          cur_check, cur_command, ret, lower, bytes, started, ended, result,
          file_result, written, builder, emitted, phase_end, ctx,
          errors>>

\* The state of the session engine taken on its own.
sessionVars == <<builder, emitted, phase_end, ctx, errors>>

SessionIdle ==
    /\ builder = <<>> /\ emitted = <<>> /\ phase_end = <<>>
    /\ ctx = "none" /\ errors = <<>>

NoResult == [res |-> "None", val |-> NoValue]

Idle ==
    /\ upper = NoResult
    /\ diags = <<>>
    /\ all_diagnostics = <<>>
    /\ default_state = None
    /\ states = <<>>
    /\ si = 0
    /\ items = 0
    /\ cur_check = None
    /\ cur_command = None
    /\ ret = NoResult
    /\ lower = NoResult
    /\ bytes = NoResult
    /\ started = <<>>
    /\ ended = <<>>
    /\ result = None
    /\ file_result = None
    /\ written = None
    /\ SessionIdle

\* The document lower::verify works on, and its name table.
Mid == upper.val

Temp == TempNew(Mid.states)

(***************************************************************************)
(* verify_file and verify_inner: the pipeline.                             *)
(***************************************************************************)
Init == pc = "start" /\ Idle

\* verify_file: std::fs::read_to_string(&src_path)
ReadFile ==
    /\ UNCHANGED sessionVars
    /\ pc = "start"
    /\ \E ok \in BOOLEAN :
        IF ok
        THEN /\ pc' = "parse"
             /\ UNCHANGED file_result
        ELSE /\ pc' = "done"
             /\ file_result' = Some([res |-> "Err",
                    diags |-> <<NewDiagnostic("Error", <<"failed to read file '{}'">>)>>])
    /\ UNCHANGED <<upper, diags, all_diagnostics, default_state, states, si, items,
                   cur_check, cur_command, ret, lower, bytes, started, ended,
                   result, written>>

\* What the parse phase records beside a document it returns: nothing, or a
\* diagnostic that is no Error (the `warnings` of lib.rs:26-28).
ParseWarnings ==
    {<<>>, <<NewDiagnostic("Warning", <<"parse warning">>)>>}

\* upper::verify(&mut context): the document, or one Error diagnostic at the
\* position the deserializer reported and the failure sentinel.
UpperVerify ==
    /\ UNCHANGED sessionVars
    /\ pc = "parse"
    /\ \/ \E m \in MidFiles, w \in ParseWarnings :
            /\ upper' = [res |-> "Ok", val |-> m]
            /\ diags' = diags \o w
       \/ /\ upper' = [res |-> "Err", val |-> NoValue]
          /\ diags' = Emit(diags, SetPrimarySpanNoMsg(
                        NewDiagnostic("Error", <<"toml::de::Error">>), "line_col"))
    /\ started' = Append(started, "parse")
    /\ pc' = "end_parse"
    /\ UNCHANGED <<all_diagnostics, default_state, states, si, items, cur_check,
                   cur_command, ret, lower, bytes, ended, result, file_result,
                   written>>

\* `let warnings = context.end_phase_and_emit()?; let x = x.unwrap();
\*  all_diagnostics.extend(warnings);` after phase `value`, going on at `next`.
EndPhaseAndGoOn(value, next) ==
    LET r == EndPhase(diags)
    IN  /\ diags' = <<>>
        /\ ended' = Append(ended, r.res)
        /\ IF Propagates(r)
           THEN /\ pc' = "inner_returned"
                /\ result' = Some([res |-> "Err", bytes |-> None, diags |-> r.diags])
                /\ UNCHANGED all_diagnostics
           ELSE IF value.res # "Ok"
           THEN /\ pc' = "panicked"             \* unwrap() of an Err
                /\ UNCHANGED <<result, all_diagnostics>>
           ELSE /\ pc' = next
                /\ all_diagnostics' = all_diagnostics \o r.diags
                /\ UNCHANGED result

EndParsePhase ==
    /\ UNCHANGED sessionVars
    /\ pc = "end_parse"
    /\ EndPhaseAndGoOn(upper, "lower")
    /\ UNCHANGED <<upper, default_state, states, si, items, cur_check, cur_command,
                   ret, lower, bytes, started, file_result, written>>

(***************************************************************************)
(* lower::verify, one step at a time.  The items of a state are read when  *)
(* the loop reaches them.  When verify returns or panics its locals are    *)
(* gone.                                                                   *)
(***************************************************************************)
DropLocals == default_state' = None /\ states' = <<>> /\ si' = 0

\* `return Err(())`, also by `?`
ReturnErr ==
    /\ lower' = [res |-> "Err", val |-> NoValue]
    /\ pc' = "end_lower"
    /\ DropLocals

Panic == pc' = "panicked" /\ DropLocals /\ UNCHANGED lower

\* From the entry of verify to the loop over the states.
LowerBegin ==
    /\ UNCHANGED sessionVars
    /\ pc = "lower"
    /\ started' = Append(started, "lower")
    /\ LET g == StateCountGate(Mid, diags)
           d == DefaultState(Mid, Temp, diags)
       IN  IF g.res = "Err" THEN diags' = g.diags /\ ReturnErr
           ELSE IF d.res = "Err" THEN diags' = d.diags /\ ReturnErr
           ELSE /\ states' = FillerStates(Mid)
                /\ default_state' = Some(d.val)
                /\ si' = 1
                /\ pc' = "checks"
                /\ UNCHANGED <<diags, lower>>
    /\ UNCHANGED <<upper, all_diagnostics, items, cur_check, cur_command, ret,
                   bytes, ended, result, file_result, written>>

\* heapless::Vec::push(..).unwrap(): TRUE when the list is full and the
\* unwrap panics.
PushPanics(list, capacity) == Len(list) >= capacity

\* One turn of `for src_check in &src_state.get_ref().checks`.
ConvertCheckStep ==
    /\ UNCHANGED sessionVars
    /\ pc = "checks"
    /\ items < MaxItems
    /\ \E c \in DocChecks :
        LET r == convert_check(c, Temp, diags)
        IN  /\ cur_check' = Some(c)
            /\ ret' = [res |-> r.res, val |-> r.val]
            /\ diags' = r.diags
            /\ IF r.res = "Panic" THEN Panic
               ELSE IF r.res = "Err" THEN ReturnErr
               ELSE IF PushPanics(states[si].checks, MAX_CHECKS) THEN Panic
               ELSE /\ states' = [states EXCEPT ![si].checks = Append(@, r.val)]
                    /\ UNCHANGED <<pc, default_state, si, lower>>
    /\ items' = items + 1
    /\ cur_command' = None
    /\ UNCHANGED <<upper, all_diagnostics, bytes, started, ended, result,
                   file_result, written>>

\* The checks of the state are exhausted.
ChecksDone ==
    /\ UNCHANGED sessionVars
    /\ pc = "checks"
    /\ pc' = "commands"
    /\ UNCHANGED <<upper, diags, all_diagnostics, default_state, states, si, items,
                   cur_check, cur_command, ret, lower, bytes, started, ended,
                   result, file_result, written>>

\* One turn of `for src_command in &src_state.get_ref().commands`.
ConvertCommandStep ==
    /\ UNCHANGED sessionVars
    /\ pc = "commands"
    /\ items < MaxItems
    /\ \E m \in DocCommands :
        LET r == convert_command(m, diags)
        IN  /\ cur_command' = Some(m)
            /\ ret' = [res |-> r.res, val |-> r.val]
            /\ diags' = r.diags
            /\ IF r.res = "Panic" THEN Panic
               ELSE IF r.res = "Err" THEN ReturnErr
               ELSE IF PushPanics(states[si].commands, MAX_COMMANDS) THEN Panic
               ELSE /\ states' = [states EXCEPT ![si].commands = Append(@, r.val)]
                    /\ UNCHANGED <<pc, default_state, si, lower>>
    /\ items' = items + 1
    /\ cur_check' = None
    /\ UNCHANGED <<upper, all_diagnostics, bytes, started, ended, result,
                   file_result, written>>

\* The commands of the state are exhausted: the next state, or
\* `Ok(ConfigFile { default_state, states })` after the last one.
CommandsDone ==
    /\ UNCHANGED sessionVars
    /\ pc = "commands"
    /\ IF si < Len(Mid.states)
       THEN /\ si' = si + 1
            /\ pc' = "checks"
            /\ UNCHANGED <<default_state, states, lower>>
       ELSE /\ lower' = [res |-> "Ok",
                         val |-> [default_state |-> Unwrap(default_state),
                                  states |-> states]]
            /\ pc' = "end_lower"
            /\ DropLocals
    /\ UNCHANGED <<upper, diags, all_diagnostics, items, cur_check, cur_command,
                   ret, bytes, started, ended, result, file_result, written>>

EndLowerPhase ==
    /\ UNCHANGED sessionVars
    /\ pc = "end_lower"
    /\ EndPhaseAndGoOn(lower, "encode")
    /\ UNCHANGED <<upper, default_state, states, si, items, cur_check, cur_command,
                   ret, lower, bytes, started, file_result, written>>

\* postcard::to_stdvec(&lower), which emits nothing into the context.
Encode ==
    /\ UNCHANGED sessionVars
    /\ pc = "encode"
    /\ started' = Append(started, "encode")
    /\ \E ok \in BOOLEAN :
        bytes' = IF ok THEN [res |-> "Ok", val |-> Postcard(lower.val)]
                 ELSE [res |-> "Err", val |-> NoValue]
    /\ pc' = "end_encode"
    /\ UNCHANGED <<upper, diags, all_diagnostics, default_state, states, si, items,
                   cur_check, cur_command, ret, lower, ended, result, file_result,
                   written>>

\* The end of the encode phase and `Ok((bytes, all_diagnostics))`.
EndEncodePhase ==
    /\ UNCHANGED sessionVars
    /\ pc = "end_encode"
    /\ LET r == EndPhase(diags)
       IN  /\ diags' = <<>>
           /\ ended' = Append(ended, r.res)
           /\ IF Propagates(r)
              THEN /\ pc' = "inner_returned"
                   /\ result' = Some([res |-> "Err", bytes |-> None, diags |-> r.diags])
                   /\ UNCHANGED all_diagnostics
              ELSE IF bytes.res # "Ok"
              THEN /\ pc' = "panicked"          \* unwrap() of an Err
                   /\ UNCHANGED <<result, all_diagnostics>>
              ELSE /\ pc' = "inner_returned"
                   /\ all_diagnostics' = all_diagnostics \o r.diags
                   /\ result' = Some([res |-> "Ok", bytes |-> Some(bytes.val),
                                      diags |-> all_diagnostics \o r.diags])
    /\ UNCHANGED <<upper, default_state, states, si, items, cur_check, cur_command,
                   ret, lower, bytes, started, file_result, written>>

\* verify_file after verify_inner: `?`, then std::fs::write(&dst_path, bytes).
WriteFile ==
    /\ UNCHANGED sessionVars
    /\ pc = "inner_returned"
    /\ LET r == Unwrap(result)
       IN  IF r.res = "Err"
           THEN /\ file_result' = Some([res |-> "Err", diags |-> r.diags])
                /\ UNCHANGED written
           ELSE \E ok \in BOOLEAN :
                IF ok
                THEN /\ written' = r.bytes
                     /\ file_result' = Some([res |-> "Ok", diags |-> r.diags])
                ELSE /\ UNCHANGED written
                     /\ file_result' = Some([res |-> "Err",
                            diags |-> Append(r.diags,
                                NewDiagnostic("Error", <<"failed to write to file '{}'">>))])
    /\ pc' = "done"
    /\ UNCHANGED <<upper, diags, all_diagnostics, default_state, states, si, items,
                   cur_check, cur_command, ret, lower, bytes, started, ended, result>>

Next ==
    \/ ReadFile
    \/ UpperVerify
    \/ EndParsePhase
    \/ LowerBegin
    \/ ConvertCheckStep
    \/ ChecksDone
    \/ ConvertCommandStep
    \/ CommandsDone
    \/ EndLowerPhase
    \/ Encode
    \/ EndEncodePhase
    \/ WriteFile

Spec == Init /\ [][Next]_vars

(***************************************************************************)
(* convert_check on its own: every check of CheckInputs, against the name  *)
(* table of every list of 1..MAX_STATES states.                            *)
(***************************************************************************)
NamedFiles ==
    {m \in MidFiles : m.default_state = None /\ Len(m.states) \in 1..MAX_STATES}

InitCheck ==
    /\ pc = "convert_check"
    /\ \E m \in NamedFiles : upper = [res |-> "Ok", val |-> m]
    /\ \E c \in CheckInputs : cur_check = Some(c)
    /\ diags = <<>> /\ all_diagnostics = <<>> /\ default_state = None
    /\ states = <<>> /\ si = 0 /\ items = 0 /\ cur_command = None
    /\ ret = NoResult /\ lower = NoResult /\ bytes = NoResult
    /\ started = <<>> /\ ended = <<>> /\ result = None /\ file_result = None
    /\ written = None
    /\ SessionIdle

ConvertCheckCall ==
    /\ UNCHANGED sessionVars
    /\ pc = "convert_check"
    /\ LET r == convert_check(Unwrap(cur_check), Temp, diags)
       IN  /\ ret' = [res |-> r.res, val |-> r.val]
           /\ diags' = r.diags
    /\ pc' = "returned"
    /\ UNCHANGED <<upper, all_diagnostics, default_state, states, si, items,
                   cur_check, cur_command, lower, bytes, started, ended, result,
                   file_result, written>>

NextCheck == ConvertCheckCall

SpecCheck == InitCheck /\ [][NextCheck]_vars

(***************************************************************************)
(* The two conversions of a command on their own: every command of         *)
(* CommandInputs.                                                          *)
(***************************************************************************)
InitCommand ==
    /\ pc = "convert_command"
    /\ \E m \in CommandInputs : cur_command = Some(m)
    /\ upper = NoResult /\ cur_check = None
    /\ diags = <<>> /\ all_diagnostics = <<>> /\ default_state = None
    /\ states = <<>> /\ si = 0 /\ items = 0
    /\ ret = NoResult /\ lower = NoResult /\ bytes = NoResult
    /\ started = <<>> /\ ended = <<>> /\ result = None /\ file_result = None
    /\ written = None
    /\ SessionIdle

\* lower.rs: convert_command(command, context)
ConvertCommandCall ==
    /\ UNCHANGED sessionVars
    /\ pc = "convert_command"
    /\ LET r == convert_command(Unwrap(cur_command), diags)
       IN  /\ ret' = [res |-> r.res, val |-> r.val]
           /\ diags' = r.diags
    /\ pc' = "returned"
    /\ UNCHANGED <<upper, all_diagnostics, default_state, states, si, items,
                   cur_check, cur_command, lower, bytes, started, ended, result,
                   file_result, written>>

\* upper.rs: command.try_into()
TryIntoCall ==
    /\ UNCHANGED sessionVars
    /\ pc = "convert_command"
    /\ ret' = CommandTryInto(Unwrap(cur_command))
    /\ pc' = "try_into_returned"
    /\ UNCHANGED <<upper, diags, all_diagnostics, default_state, states, si, items,
                   cur_check, cur_command, lower, bytes, started, ended, result,
                   file_result, written>>

NextCommand == ConvertCommandCall \/ TryIntoCall

SpecCommand == InitCommand /\ [][NextCommand]_vars

(***************************************************************************)
(* What the claims speak of.                                               *)
(***************************************************************************)
Declared(name) == \E i \in DOMAIN Mid.states : Mid.states[i].name = name

\* lower::verify has returned or panicked, and nothing has run since.
LoweringReturned == pc = "end_lower"

LoweringPanicked == pc = "panicked" /\ started = <<"parse", "lower">>

LoweringOver == LoweringReturned \/ LoweringPanicked

\* A check that is valid on its own: exactly one condition group and no
\* lone bound, a known kind, a condition of the shape legal for the kind,
\* at most one of transition and abort, and names that are declared.
ShapeLegal(c) ==
    IF c.check = "altitude" THEN IsNone(c.flag)
    ELSE IsSome(c.flag) /\ Unwrap(c.flag) \in {"set", "unset"}

ValidCheck(c) ==
    /\ IsSome(c.upper_bound) <=> IsSome(c.lower_bound)
    /\ CheckCount(c) = 1
    /\ c.check \in DOMAIN CheckKinds
    /\ ShapeLegal(c)
    /\ ~(IsSome(c.transition) /\ IsSome(c.abort))
    /\ IsSome(c.transition) => Declared(Unwrap(c.transition))
    /\ IsSome(c.abort) => Declared(Unwrap(c.abort))

ValidCommand(m) == CommandCount(m) = 1

\* C1: whenever lower::verify returns Ok, the default_state of the returned
\* ConfigFile is 0 if the document names no default state, and otherwise is
\* the position (0-based, in declaration order) of a state whose name is the
\* named default.
C1_DefaultStateIndex ==
    lower.res = "Ok" =>
        IF IsNone(Mid.default_state)
        THEN lower.val.default_state = 0
        ELSE /\ lower.val.default_state + 1 \in DOMAIN Mid.states
             /\ Mid.states[lower.val.default_state + 1].name = Unwrap(Mid.default_state)

\* A document whose named default is its second state has lowered.
C1_Witness ==
    /\ lower.res = "Ok"
    /\ IsSome(Mid.default_state)
    /\ lower.val.default_state = 1

\* C2 as stated: with zero states lower::verify returns Err having recorded
\* exactly one diagnostic, the Error "no states declared", and has validated
\* no default state, check or command.
C2_NoStatesDeclared ==
    LoweringOver /\ Len(Mid.states) = 0 =>
        /\ lower.res = "Err"
        /\ Len(diags) = 1
        /\ diags[1].level = "Error"
        /\ diags[1].message = <<"no states declared">>
        /\ items = 0

\* C2 as amended: the same, the one Error being "states missing".
C2_StatesMissing ==
    LoweringOver /\ Len(Mid.states) = 0 =>
        /\ lower.res = "Err"
        /\ Len(diags) = 1
        /\ diags[1].level = "Error"
        /\ diags[1].message = <<"states missing">>
        /\ items = 0

\* lower::verify is over for a document with no state and a dangling default.
C2_Witness ==
    /\ LoweringOver
    /\ Len(Mid.states) = 0
    /\ Mid.default_state = Some("Z")

\* Every item read so far was valid on its own: no Error was recorded, and
\* the last item given to a conversion is valid.
AllItemsValid ==
    /\ ~HasError(diags)
    /\ IsSome(Mid.default_state) => Declared(Unwrap(Mid.default_state))
    /\ IsSome(cur_check) => ValidCheck(Unwrap(cur_check))
    /\ IsSome(cur_command) => ValidCommand(Unwrap(cur_command))

\* C3: with more than MAX_STATES states lower::verify returns Err with the
\* Error "too many states"; with exactly MAX_STATES states and only valid
\* items it returns Ok with MAX_STATES lower states.
C3_StateCountBoundary ==
    /\ LoweringOver /\ Len(Mid.states) > MAX_STATES =>
        /\ lower.res = "Err"
        /\ <<"too many states">> \in Messages(diags)
    /\ LoweringOver /\ Len(Mid.states) = MAX_STATES /\ AllItemsValid =>
        /\ lower.res = "Ok"
        /\ Len(lower.val.states) = MAX_STATES

(***************************************************************************)
(* Claims about one conversion (SpecCheck, SpecCommand).                   *)
(***************************************************************************)
CheckReturned == pc = "returned" /\ IsSome(cur_check)

CommandReturned == pc = "returned" /\ IsSome(cur_command)

\* The condition fields of a check.
ConditionFields == {"greater_than", "upper_bound", "lower_bound", "flag"}

\* The last diagnostic with Error severity that was recorded.
LastError ==
    diags[CHOOSE i \in DOMAIN diags :
            /\ diags[i].level = "Error"
            /\ \A j \in DOMAIN diags : diags[j].level = "Error" => j <= i]

\* C4: convert_check of a check with two or more condition groups present
\* records an Error diagnostic and returns Err, whatever the kind.
C4_TooManyConditionsFail ==
    CheckReturned /\ CheckCount(Unwrap(cur_check)) >= 2 =>
        /\ ret.res = "Err"
        /\ HasError(diags)

\* C5: convert_check of a check with no condition group present (a lone
\* upper_bound or lower_bound included) records an Error diagnostic and
\* returns Err; it does not panic.  (The text of the message is left out.)
C5_NoConditionFails ==
    CheckReturned /\ CheckCount(Unwrap(cur_check)) = 0 =>
        /\ ret.res = "Err"
        /\ HasError(diags)

\* C6: the diagnostic of a check that fails with more than one condition
\* group labels every condition field that is set exactly once, and no other
\* span.
C6_EveryConflictLabelled ==
    CheckReturned /\ CheckCount(Unwrap(cur_check)) >= 2 /\ ret.res = "Err" =>
        LET labels == LastError.spans
        IN  /\ \A f \in ConditionFields :
                Cardinality({i \in DOMAIN labels : labels[i][1] = f})
                    = IF IsSome(Unwrap(cur_check)[f]) THEN 1 ELSE 0
            /\ \A i \in DOMAIN labels : labels[i][1] \in ConditionFields

\* C7: convert_check of a check that sets both transition and abort returns
\* Err with at least one Error diagnostic, whether or not the names are
\* declared; a Check that is returned holds at most one of the two.
C7_TransitionAbortExclusive ==
    CheckReturned
    /\ IsSome(Unwrap(cur_check).transition) /\ IsSome(Unwrap(cur_check).abort) =>
        /\ ret.res = "Err"
        /\ HasError(diags)

\* C9: a conversion of a command returns Ok exactly when one payload field is
\* set; with none or several set it returns Err and yields no Command.
C9_ExactlyOneAction ==
    CommandReturned =>
        /\ ret.res = "Ok" <=> CommandCount(Unwrap(cur_command)) = 1
        /\ CommandCount(Unwrap(cur_command)) # 1 => ret.res = "Err" /\ ret.val = NoValue

\* The message of Temp::get_index's error for `name`.
NotFound(name) == <<"state not found '{}'", name>>

Reported(name) == \E i \in DOMAIN diags : diags[i].message = NotFound(name)

\* C8, for the names of a check: convert_check of a check whose transition
\* or abort names a string that is no declared state name returns Err with
\* the Error "state not found" naming that string, and a declared name is
\* never reported.  (A named default_state goes through the same lookup.)
C8_DanglingReported ==
    CheckReturned =>
        LET c == Unwrap(cur_check)
        IN  /\ IsSome(c.transition) /\ ~Declared(Unwrap(c.transition)) =>
                ret.res = "Err" /\ Reported(Unwrap(c.transition))
            /\ IsSome(c.abort) /\ ~Declared(Unwrap(c.abort)) =>
                ret.res = "Err" /\ Reported(Unwrap(c.abort))
            /\ \A n \in RefNames : Reported(n) => ~Declared(n)

(***************************************************************************)
(* Claims about the pipeline (Spec).                                       *)
(***************************************************************************)
Began(phase) == \E i \in DOMAIN started : started[i] = phase

AllPhasesOk == ended = <<"Ok", "Ok", "Ok">>

\* C10: lowering begins only after the parse phase ended without Error,
\* encoding only after the lowering phase ended without Error; verify_inner
\* returns bytes only when the three phases ended without Error, and returns
\* none with a failure; verify_file writes dst_path only in that case.
C10_StopsAtFirstFailedPhase ==
    /\ Began("lower") => Len(ended) >= 1 /\ ended[1] = "Ok"
    /\ Began("encode") => Len(ended) >= 2 /\ ended[2] = "Ok"
    /\ IsSome(result) /\ Unwrap(result).res = "Ok" =>
        AllPhasesOk /\ IsSome(Unwrap(result).bytes)
    /\ IsSome(result) /\ Unwrap(result).res = "Err" => IsNone(Unwrap(result).bytes)
    /\ IsSome(written) =>
        AllPhasesOk /\ IsSome(result) /\ Unwrap(result).res = "Ok"
    /\ pc \in {"done", "panicked"} /\ ~AllPhasesOk => IsNone(written)

\* verify_file is over after a lowering phase that ended with an Error:
\* lowering had returned Ok, with the Error of a command recorded.
C10_Witness ==
    /\ pc = "done"
    /\ ended = <<"Ok", "Err">>
    /\ lower.res = "Ok"
    /\ Unwrap(file_result).res = "Err"
    /\ IsNone(written)

\* What verify_inner returned, once it has.
Returned == Unwrap(result)

InnerFailed == IsSome(result) /\ Returned.res = "Err"

OthersIdle ==
    /\ upper = NoResult /\ all_diagnostics = <<>> /\ default_state = None
    /\ states = <<>> /\ si = 0 /\ items = 0 /\ cur_check = None
    /\ cur_command = None /\ ret = NoResult /\ lower = NoResult
    /\ bytes = NoResult /\ started = <<>> /\ result = None
    /\ file_result = None /\ written = None

othersVars ==
    <<upper, all_diagnostics, default_state, states, si, items, cur_check,
      cur_command, ret, lower, bytes, started, result, file_result, written>>

InitSession ==
    /\ pc = "session"
    /\ OthersIdle /\ SessionIdle
    /\ diags = <<>> /\ ended = <<>>

\* DiagnosticBuilder::new.  `created` is the level it was made with, `received`
\* the number of diagnostics the session has got from it.
BuilderNew ==
    /\ pc = "session"
    /\ IsNone(builder)
    /\ \E level \in Levels :
        builder' = Some([diagnostic |-> NewDiagnostic(level, <<"message">>),
                         created |-> level, received |-> 0])
    /\ UNCHANGED <<pc, diags, emitted, phase_end, ctx, errors, ended, othersVars>>

\* builder.emit()
BuilderEmit ==
    /\ pc \in {"session", "context"}
    /\ IsSome(builder)
    /\ Len(diags) < MaxEmits
    /\ LET b == Unwrap(builder)
       IN  /\ diags' = Emit(diags, b.diagnostic)
           /\ emitted' = IF Cancelled(b.diagnostic) THEN emitted
                         ELSE Append(emitted, b.diagnostic)
           /\ builder' = Some([b EXCEPT
                    !.diagnostic = Cancel(@),
                    !.received = @ + Len(diags') - Len(diags)])
    /\ UNCHANGED <<pc, phase_end, ctx, errors, ended, othersVars>>

\* builder.cancel()
BuilderCancel ==
    /\ pc = "session"
    /\ IsSome(builder)
    /\ builder' = Some([Unwrap(builder) EXCEPT !.diagnostic = Cancel(@)])
    /\ UNCHANGED <<pc, diags, emitted, phase_end, ctx, errors, ended, othersVars>>

\* A builder that was emitted or cancelled goes out of scope.
BuilderDrop ==
    /\ pc = "session"
    /\ IsSome(builder)
    /\ Cancelled(Unwrap(builder).diagnostic)
    /\ builder' = None
    /\ UNCHANGED <<pc, diags, emitted, phase_end, ctx, errors, ended, othersVars>>

\* The phase is ended: its diagnostics are drained.
SessionEndPhase ==
    /\ pc = "session"
    /\ IsNone(builder)
    /\ Len(ended) < MaxPhases
    /\ phase_end' = Some(EndPhase(diags))
    /\ ended' = Append(ended, EndPhase(diags).res)
    /\ diags' = <<>>
    /\ pc' = "phase_ended"
    /\ UNCHANGED <<builder, emitted, ctx, errors, othersVars>>

\* The next phase begins.
SessionNextPhase ==
    /\ pc = "phase_ended"
    /\ emitted' = <<>>
    /\ phase_end' = None
    /\ pc' = "session"
    /\ UNCHANGED <<builder, diags, ctx, errors, ended, othersVars>>

NextSession ==
    \/ BuilderNew
    \/ BuilderEmit
    \/ BuilderCancel
    \/ BuilderDrop
    \/ SessionEndPhase
    \/ SessionNextPhase

SpecSession == InitSession /\ [][NextSession]_vars

(***************************************************************************)
(* Claims about the session engine (SpecSession).                          *)
(***************************************************************************)
\* TRUE when the entries of `a` are entries of `b`, in the same order.
RECURSIVE IsSubSeq(_, _)
IsSubSeq(a, b) ==
    IF a = <<>> THEN TRUE
    ELSE IF b = <<>> THEN FALSE
    ELSE IF Head(a) = Head(b) THEN IsSubSeq(Tail(a), Tail(b))
    ELSE IsSubSeq(a, Tail(b))

PhaseEnded == pc = "phase_ended" /\ IsSome(phase_end)

C14_BuilderSingleUse ==
    /\ IsSome(builder) => Unwrap(builder).received <= 1
    /\ IsSome(builder) /\ Unwrap(builder).received = 1 =>
        /\ diags # <<>>
        /\ diags[Len(diags)].level = Unwrap(builder).created
    /\ \A i \in DOMAIN diags : diags[i].level \in Levels

(***************************************************************************)
(* The Context of error.rs on its own: errors recorded in any order, then  *)
(* finish, or the end of the scope without it.  `emitted` keeps the errors *)
(* given to the Context, in the order they were given.                     *)
(***************************************************************************)
EMPTY_SPAN == <<0, 0>>

\* The spans and errors given to the Context: (start, len), Error.
Spans == {EMPTY_SPAN, <<3, 4>>}

ErrorValues == {"NoStates", "Custom"}

OuterError(inner, span) == [inner |-> inner, span |-> span]

\* emitt_span_severity with the error put in front of the list.
EmittSpanSeverityFront(errs, span, err, severity) ==
    [errors |-> <<OuterError(err, span)>> \o errs,
     res |-> IF severity = "Recoverable" THEN "Ok" ELSE "Err"]

EmittSpanSeverity(errs, span, err, severity) ==
    [errors |-> Append(errs, OuterError(err, span)),
     res |-> IF severity = "Recoverable" THEN "Ok" ELSE "Err"]

EmittSpan(errs, span, err) == EmittSpanSeverity(errs, span, err, "Recoverable")

EmittSpanFatal(errs, span, err) == EmittSpanSeverity(errs, span, err, "Fatal")

Emitt(errs, err) == EmittSpan(errs, EMPTY_SPAN, err)

\* check(res): an Err is recorded with the span (0, 0).
Check(errs, res) ==
    IF res.res = "Err"
    THEN [errors |-> Append(errs, OuterError(res.val, <<0, 0>>)), res |-> "Err"]
    ELSE [errors |-> errs, res |-> "Ok"]

\* finish without `std::mem::forget(self)`: the Context is dropped on return.
FinishDrops(errs) ==
    [result |-> IF errs # <<>> THEN [res |-> "Err", diags |-> errs]
                ELSE [res |-> "Ok", diags |-> <<>>],
     forgotten |-> FALSE]

\* finish: the errors when there are any, and the Context forgotten.
Finish(errs) ==
    [result |-> IF errs # <<>> THEN [res |-> "Err", diags |-> errs]
                ELSE [res |-> "Ok", diags |-> <<>>],
     forgotten |-> TRUE]

InitContext ==
    /\ pc = "context"
    /\ OthersIdle /\ SessionIdle
    /\ diags = <<>> /\ ended = <<>>

contextOthers == <<diags, ended, builder, othersVars>>

\* SourceManager::new_context
ContextNew ==
    /\ pc = "context"
    /\ ctx = "none"
    /\ ctx' = "live"
    /\ errors' = <<>>
    /\ UNCHANGED <<pc, emitted, phase_end, contextOthers>>

\* What a call on the live Context leaves: the list and the result.
ContextCall(r, given) ==
    /\ errors' = r.errors
    /\ ret' = [res |-> r.res, val |-> NoValue]
    /\ emitted' = emitted \o given
    /\ UNCHANGED <<pc, ctx, phase_end, diags, ended, builder, upper,
                   all_diagnostics, default_state, states, si, items, cur_check,
                   cur_command, lower, bytes, started, result, file_result,
                   written>>

CanRecord == pc = "context" /\ ctx = "live" /\ Len(errors) < MaxEmits

ContextEmittSpan ==
    /\ CanRecord
    /\ \E span \in Spans, err \in ErrorValues :
        ContextCall(EmittSpan(errors, span, err), <<OuterError(err, span)>>)

ContextEmittSpanFatal ==
    /\ CanRecord
    /\ \E span \in Spans, err \in ErrorValues :
        ContextCall(EmittSpanFatal(errors, span, err), <<OuterError(err, span)>>)

ContextEmitt ==
    /\ CanRecord
    /\ \E err \in ErrorValues :
        ContextCall(Emitt(errors, err), <<OuterError(err, EMPTY_SPAN)>>)

ContextCheck ==
    /\ CanRecord
    /\ \/ ContextCall(Check(errors, [res |-> "Ok", val |-> "value"]), <<>>)
       \/ \E err \in ErrorValues :
            ContextCall(Check(errors, [res |-> "Err", val |-> err]),
                        <<OuterError(err, EMPTY_SPAN)>>)

\* context.finish()
ContextFinish ==
    /\ pc = "context"
    /\ ctx = "live"
    /\ LET f == Finish(errors)
       IN  /\ phase_end' = Some(f.result)
           /\ errors' = <<>>
           /\ ctx' = IF f.forgotten THEN "forgotten" ELSE "dropped"
           /\ pc' = IF f.forgotten THEN pc ELSE "panicked"
    /\ UNCHANGED <<emitted, ret, contextOthers>>

\* The scope of the Context ends: Drop::drop runs on a Context that was not
\* forgotten, and panics.
ContextScopeEnd ==
    /\ pc = "context"
    /\ ctx \in {"live", "forgotten"}
    /\ IF ctx = "live"
       THEN ctx' = "dropped" /\ pc' = "panicked"
       ELSE ctx' = ctx /\ pc' = "scope_ended"
    /\ UNCHANGED <<errors, emitted, phase_end, ret, contextOthers>>

NextContext ==
    \/ ContextNew
    \/ ContextEmittSpan
    \/ ContextEmittSpanFatal
    \/ ContextEmitt
    \/ ContextCheck
    \/ ContextFinish
    \/ ContextScopeEnd

SpecContext == InitContext /\ [][NextContext]_vars

(***************************************************************************)
(* Claims about the Context (SpecContext).                                 *)
(***************************************************************************)
Finished == ctx = "forgotten" /\ IsSome(phase_end)

\* C13: while the Context lives its list is the errors given to it, in the
\* order they were given (recoverable, fatal or through check), and finish
\* returns that very sequence: n errors given, n errors carried.
C13_AppendOnlyInOrder ==
    /\ ctx = "live" => errors = emitted
    /\ Finished =>
        /\ Unwrap(phase_end).diags = emitted
        /\ Len(Unwrap(phase_end).diags) = Len(emitted)
        /\ Unwrap(phase_end).res = "Err" <=> emitted # <<>>

\* finish has returned two different errors, the second one fatal.
C13_Witness ==
    /\ Finished
    /\ Len(emitted) = 2
    /\ emitted[1] # emitted[2]
    /\ ret.res = "Err"
    /\ Unwrap(phase_end).res = "Err"

\* C15: the end of the scope of a Context that finish did not consume
\* panics, with or without errors recorded; after finish, with Ok or with
\* Err, there is no panic.
C15_DropWithoutFinishPanics ==
    /\ pc = "panicked" => ctx = "dropped" /\ IsNone(phase_end)
    /\ pc = "scope_ended" => Finished
    /\ IsSome(phase_end) => pc # "panicked" /\ ctx = "forgotten"

\* A Context with an error recorded went out of scope without finish.
C15_Witness ==
    /\ pc = "panicked"
    /\ ctx = "dropped"
    /\ emitted # <<>>
    /\ IsNone(phase_end)

(***************************************************************************)
(* More claims about the pipeline (Spec).                                  *)
(***************************************************************************)
InLowering == pc \in {"lower", "checks", "commands"}

\* The two document-wide violations: no state, or more than MAX_STATES.
StateCountViolated ==
    pc = "lower" /\ (Len(Mid.states) = 0 \/ Len(Mid.states) > MAX_STATES)

\* C16: a step of lowering that records an Error for a dangling
\* default_state, a defective check or a defective command is followed by
\* the rest of the loop over the checks and commands, not by the return of
\* lower::verify; only the violations of the state count end it at once.
C16_RecoverableErrorsGoOn ==
    [][(InLowering /\ ~StateCountViolated /\ NumErrors(diags') > NumErrors(diags))
            => pc' \in {"checks", "commands"}]_vars

ParseFailed == upper.res = "Err"

StateIndices(config) ==
    {config.default_state}
    \cup {Unwrap(config.states[i].checks[j].transition)[2] :
            <<i, j>> \in {p \in (DOMAIN config.states) \X (1..MAX_CHECKS) :
                /\ p[2] \in DOMAIN config.states[p[1]].checks
                /\ IsSome(config.states[p[1]].checks[p[2]].transition)}}

\* C18: every StateIndex of a ConfigFile that lower::verify returns is less
\* than the number of its states.
C18_StateIndexInRange ==
    lower.res = "Ok" =>
        \A x \in StateIndices(lower.val) : x \in 0..(Len(lower.val.states) - 1)

\* A ConfigFile was returned in which a check goes to the last state.
C18_Witness ==
    /\ lower.res = "Ok"
    /\ Len(lower.val.states) = MAX_STATES
    /\ (MAX_STATES - 1) \in (StateIndices(lower.val) \ {lower.val.default_state})

(***************************************************************************)
(* Spans: one builder given spans and emitted, beside a Context that       *)
(* records errors with no span information and is finished.                *)
(***************************************************************************)
InitSpans ==
    /\ pc = "context"
    /\ OthersIdle
    /\ diags = <<>> /\ ended = <<>>
    /\ emitted = <<>> /\ phase_end = None /\ ctx = "none" /\ errors = <<>>
    /\ \E level \in Levels :
        builder = Some([diagnostic |-> NewDiagnostic(level, <<"message">>),
                        created |-> level, received |-> 0])

\* builder.set_primary_span(span)
BuilderSetPrimarySpan ==
    /\ IsSome(builder)
    /\ \E span \in Spans :
        builder' = Some([Unwrap(builder) EXCEPT
                            !.diagnostic = SetPrimarySpanNoMsg(@, span)])
    /\ UNCHANGED <<pc, diags, emitted, phase_end, ctx, errors, ended, othersVars>>

\* builder.span_label(span, label)
BuilderSpanLabel ==
    /\ IsSome(builder)
    /\ Len(Unwrap(builder).diagnostic.spans) < MaxLabels
    /\ \E span \in Spans :
        builder' = Some([Unwrap(builder) EXCEPT
                            !.diagnostic = SpanLabel(@, span, <<"label">>)])
    /\ UNCHANGED <<pc, diags, emitted, phase_end, ctx, errors, ended, othersVars>>

NextSpans ==
    \/ BuilderSetPrimarySpan
    \/ BuilderSpanLabel
    \/ BuilderEmit
    \/ ContextNew
    \/ ContextEmitt
    \/ ContextCheck
    \/ ContextFinish

SpecSpans == InitSpans /\ [][NextSpans]_vars

\* The spans of a diagnostic: its primary span, if any, and its labelled spans.
SpansOf(d) ==
    (IF IsSome(d.primary) THEN {Unwrap(d.primary)[1]} ELSE {})
    \cup {d.spans[j][1] : j \in DOMAIN d.spans}

\* C19: the empty span (0, 0) given to set_primary_span or span_label is in
\* neither the primary span nor the span list of a diagnostic the session
\* holds, and no error that finish returns carries (0, 0) as its location.
C19_EmptySpanSuppressed ==
    /\ \A i \in DOMAIN diags : EMPTY_SPAN \notin SpansOf(diags[i])
    /\ IsSome(phase_end) =>
        \A i \in DOMAIN Unwrap(phase_end).diags :
            Unwrap(phase_end).diags[i].span # EMPTY_SPAN

(***************************************************************************)
(* More claims about one conversion (SpecCheck).                           *)
(***************************************************************************)
\* A check of a known kind with exactly one condition group, well formed
\* but of a shape that is illegal for the kind.
Mismatched(c) ==
    /\ c.check \in DOMAIN CheckKinds
    /\ CheckCount(c) = 1
    /\ IsSome(c.upper_bound) <=> IsSome(c.lower_bound)
    /\ IsSome(c.flag) => Unwrap(c.flag) \in {"set", "unset"}
    /\ IF c.check = "altitude" THEN IsSome(c.flag) ELSE IsNone(c.flag)

\* C20: convert_check of such a check records the Error "mismatched check
\* type" and returns Err; it does not panic, for any kind.
C20_MismatchIsAnError ==
    CheckReturned /\ Mismatched(Unwrap(cur_check)) =>
        /\ ret.res = "Err"
        /\ HasError(diags)
        /\ LastError.message = <<"mismatched check type">>

(***************************************************************************)
(* Claims about the capacities and the values lowering returns (Spec).     *)
(***************************************************************************)
\* The step converts a valid check, or a valid command, for a state whose
\* list is already at its capacity.
OverCapacityStep ==
    /\ items' = items + 1
    /\ ret'.res = "Ok"
    /\ \/ /\ pc = "checks"
          /\ ValidCheck(Unwrap(cur_check'))
          /\ Len(states[si].checks) >= MAX_CHECKS
       \/ /\ pc = "commands"
          /\ ValidCommand(Unwrap(cur_command'))
          /\ Len(states[si].commands) >= MAX_COMMANDS

\* C21: a valid check beyond MAX_CHECKS, or a valid command beyond
\* MAX_COMMANDS, makes lower::verify record an Error and return Err: it does
\* not panic; and no list of a ConfigFile it returns is over its capacity.
C21_OverCapacityIsAnError ==
    /\ [][OverCapacityStep =>
            /\ pc' = "end_lower"
            /\ lower'.res = "Err"
            /\ NumErrors(diags') > NumErrors(diags)]_vars
    /\ [](lower.res = "Ok" =>
            \A i \in DOMAIN lower.val.states :
                /\ Len(lower.val.states[i].checks) <= MAX_CHECKS
                /\ Len(lower.val.states[i].commands) <= MAX_COMMANDS)

(***************************************************************************)
(* Claims about the values one conversion returns (SpecCheck, SpecCommand).*)
(***************************************************************************)
\* The CheckData a check stands for, read off its fields.
ReferenceData(c) ==
    IF c.check = "altitude"
    THEN IF IsSome(c.greater_than)
         THEN <<"Altitude", "GreaterThan", Unwrap(c.greater_than)>>
         ELSE <<"Altitude", "Between", Unwrap(c.upper_bound), Unwrap(c.lower_bound)>>
    ELSE IF c.check = "apogee"
    THEN <<"ApogeeFlag", Unwrap(c.flag) = "set">>
    ELSE <<CheckKinds[c.check], Unwrap(c.flag) = "set">>

\* TRUE when `t` is the transition the check stands for: none, or the
\* Transition or Abort to the position of a state that bears the name.
IsReferenceTransition(c, t) ==
    IF IsSome(c.transition)
    THEN /\ IsSome(t) /\ Unwrap(t)[1] = "Transition"
         /\ Unwrap(t)[2] + 1 \in DOMAIN Mid.states
         /\ Mid.states[Unwrap(t)[2] + 1].name = Unwrap(c.transition)
    ELSE IF IsSome(c.abort)
    THEN /\ IsSome(t) /\ Unwrap(t)[1] = "Abort"
         /\ Unwrap(t)[2] + 1 \in DOMAIN Mid.states
         /\ Mid.states[Unwrap(t)[2] + 1].name = Unwrap(c.abort)
    ELSE IsNone(t)

\* C22: the Check that convert_check returns is the one its fields stand
\* for: the data of the kind with the one condition that is set, and the
\* Transition or Abort to the named state, or no transition.
C22_CheckIsReferenceMapping ==
    CheckReturned /\ ret.res = "Ok" =>
        LET c == Unwrap(cur_check)
        IN  /\ CheckCount(c) = 1
            /\ ~(IsSome(c.transition) /\ IsSome(c.abort))
            /\ ret.val.data = ReferenceData(c)
            /\ IsReferenceTransition(c, ret.val.transition)

\* A continuity check with flag "unset" and an abort to the second state was
\* converted.
C22_Witness ==
    /\ CheckReturned /\ ret.res = "Ok"
    /\ Unwrap(cur_check).check = "pyro2_continuity"
    /\ Unwrap(cur_check).flag = Some("unset")
    /\ ret.val.data = <<"Pyro2Continuity", FALSE>>
    /\ ret.val.transition = Some(<<"Abort", 1>>)

\* The payload variant of each field of a command.
VariantOf ==
    [pyro1 |-> "Pyro1", pyro2 |-> "Pyro2", pyro3 |-> "Pyro3",
     data_rate |-> "DataRate", beacon |-> "Beacon"]

\* The value a payload field holds: the number of data_rate, the boolean of
\* the other fields.
PayloadValue(field, v) == IF field = "data_rate" THEN v ELSE v[2]

ConversionReturned ==
    pc \in {"returned", "try_into_returned"} /\ IsSome(cur_command)

\* C23: a command with exactly one payload field set converts, by
\* convert_command and by try_into, to the Command with the variant of that
\* field holding its value, and with the declared delay, or zero seconds.
C23_CommandIsReferenceMapping ==
    ConversionReturned /\ CommandCount(Unwrap(cur_command)) = 1 =>
        LET m == Unwrap(cur_command)
        IN  /\ ret.res = "Ok"
            /\ \A f \in DOMAIN VariantOf :
                IsSome(m[f]) =>
                    ret.val.object = <<VariantOf[f], PayloadValue(f, Unwrap(m[f]))>>
            /\ ret.val.delay =
                <<"Seconds", IF IsSome(m.delay) THEN Unwrap(m.delay) ELSE 0>>

\* convert_command has returned the Command of a data_rate with a delay.
C23_Witness ==
    /\ pc = "returned" /\ IsSome(cur_command)
    /\ CommandCount(Unwrap(cur_command)) = 1
    /\ ret.res = "Ok"
    /\ ret.val.object = <<"DataRate", 10>>
    /\ ret.val.delay = <<"Seconds", 5>>

\* C24: when lower::verify has returned the failure result, the current
\* phase holds an Error diagnostic, so the end of the phase is the failure
\* with a non-empty list, verify_inner returns it, and the unwrap of the
\* lowering result is not reached with a failure value.
C24_FailureHasRecordedError ==
    pc = "end_lower" /\ lower.res = "Err" =>
        /\ HasError(diags)
        /\ EndPhase(diags).res = "Err"
        /\ Len(EndPhase(diags).diags) > 0
        /\ Propagates(EndPhase(diags))

\* lower::verify has returned the failure of the conversion of a check.
C24_Witness ==
    /\ pc = "end_lower" /\ lower.res = "Err"
    /\ IsSome(cur_check)
    /\ ret.res = "Err"
    /\ HasError(diags)

\* The 0-based positions of the states declared with `name`.
PositionsOf(name) == {i - 1 : i \in {j \in DOMAIN Mid.states : Mid.states[j].name = name}}

\* TRUE when `index` is the position of the last state declared with `name`.
IsLastPosition(name, index) ==
    /\ index \in PositionsOf(name)
    /\ \A p \in PositionsOf(name) : p <= index

DistinctNames ==
    \A i, j \in DOMAIN Mid.states : Mid.states[i].name = Mid.states[j].name => i = j

InLoop == pc \in {"checks", "commands"}

\* The index a lowered transition carries.
IndexOf(t) == Unwrap(t)[2]

\* C25: a state name resolves to the position of the last state declared
\* with it, which is its declaration position when the names are pairwise
\* distinct: for default_state, transition and abort alike; repeated names
\* record no diagnostic.
C25_LastDeclarationWins ==
    InLoop =>
        /\ IsSome(Mid.default_state) =>
            /\ IsSome(default_state)
            /\ IsLastPosition(Unwrap(Mid.default_state), Unwrap(default_state))
            /\ DistinctNames =>
                PositionsOf(Unwrap(Mid.default_state)) = {Unwrap(default_state)}
        /\ IsNone(cur_check) /\ IsNone(cur_command) => diags = <<>>
        /\ IsSome(cur_check) /\ ret.res = "Ok" =>
            LET c == Unwrap(cur_check)
                name == IF IsSome(c.transition) THEN c.transition ELSE c.abort
            IN  IsSome(name) =>
                    /\ IsSome(ret.val.transition)
                    /\ IsLastPosition(Unwrap(name), IndexOf(ret.val.transition))
                    /\ DistinctNames =>
                        PositionsOf(Unwrap(name)) = {IndexOf(ret.val.transition)}

\* Two states are named B: the default state and a transition to B are both
\* the second of them.
C25_Witness ==
    /\ InLoop
    /\ Len(Mid.states) = 2
    /\ Mid.states[1].name = "B" /\ Mid.states[2].name = "B"
    /\ Mid.default_state = Some("B") /\ default_state = Some(1)
    /\ IsSome(cur_check) /\ ret.res = "Ok"
    /\ Unwrap(cur_check).transition = Some("B")
    /\ ret.val.transition = Some(<<"Transition", 1>>)
    /\ ~HasError(diags)

(***************************************************************************)
(* lower::verify on its own, on documents whose states declare timeouts.   *)
(***************************************************************************)
\* upper::Timeout: the timeouts a state declares, to a declared state and to
\* a state that is not declared.
DeclaredTimeouts ==
    {None,
     Some([seconds |-> Some(3), transition |-> Some("A")]),
     Some([seconds |-> Some(3), transition |-> Some("Z")])}

\* The documents of 1..MAX_STATES states, the first named A and the others
\* B, each with one of the timeouts.
TimedFiles ==
    {[default_state |-> None,
      states |-> [i \in 1..n |->
                    [name |-> IF i = 1 THEN "A" ELSE "B", timeout |-> t[i]]]] :
        <<n, t>> \in UNION {{k} \X [1..k -> DeclaredTimeouts] : k \in 1..MAX_STATES}}

InitLower ==
    /\ pc = "lower"
    /\ \E m \in TimedFiles : upper = [res |-> "Ok", val |-> m]
    /\ cur_check = None /\ cur_command = None
    /\ diags = <<>> /\ all_diagnostics = <<>> /\ default_state = None
    /\ states = <<>> /\ si = 0 /\ items = 0
    /\ ret = NoResult /\ lower = NoResult /\ bytes = NoResult
    /\ started = <<>> /\ ended = <<>> /\ result = None /\ file_result = None
    /\ written = None
    /\ SessionIdle

NextLower ==
    \/ LowerBegin
    \/ ConvertCheckStep
    \/ ChecksDone
    \/ ConvertCommandStep
    \/ CommandsDone

SpecLower == InitLower /\ [][NextLower]_vars

====
